---- MODULE Spec2Model ----
(***************************************************************************)
(* Ladder-network congestion game of temp18.py: rung latency generation,   *)
(* the sequential best-response simulation (simulate_network), and the     *)
(* exhaustive bottom-k coalition search (analyze_bottom_coalitions).       *)
(*                                                                         *)
(* Python lists are 0-indexed, TLA+ sequences 1-indexed: rungs[p-1] of the *)
(* source is rungs[p] here.  Dictionaries are functions whose DOMAIN is    *)
(* the key set; the defaultdict(int) rails are functions that are 0 on     *)
(* every segment 1..n-1 when created.                                      *)
(***************************************************************************)
EXTENDS Integers, Sequences, FiniteSets, TLC

(* ---- bounds of the model ---- *)
MaxN == 3          \* largest n of a direct simulate_network call
MaxSearchN == 5    \* largest n_max handed to analyze_bottom_coalitions

(* latencies a caller-supplied rung sequence is drawn from *)
RungVals == {1, 3, 5}

(* float('inf') of the search: no cost is negative, so -1 stands for it *)
Inf == -1
None == <<>>

VARIABLES
    pc,                 \* position of the program
    caller,             \* "none": direct call, "analysis": called by the search
    n, coalition, choices, rungs,      \* arguments of simulate_network
    generated,          \* the m for which rungs = calculate_rungs(m) was computed, or 0
    idx, player,        \* loop variables of simulate_network
    left_rails, right_rails, routes,
    deviation_cost,     \* player -> deviation_cost computed in its iteration
    individual_costs, system_cost, coalition_cost,
    n_min, n_max, k, ci,               \* analyze_bottom_coalitions
    min_coalition_cost, best_system_cost, best_routes, best_choices,
    results

simVars == <<n, coalition, choices, rungs, generated, idx, player, left_rails,
             right_rails, routes, deviation_cost, individual_costs,
             system_cost, coalition_cost>>
searchVars == <<n_min, n_max, k, ci, min_coalition_cost, best_system_cost,
                best_routes, best_choices, results>>
vars == <<pc, caller, simVars, searchVars>>

(* ------------------------------------------------------------------ *)
(* calculate_rungs                                                    *)
(* ------------------------------------------------------------------ *)
\* variant: the index taken 0-based in the step 2*(n - i) + 1
RECURSIVE calculate_rungs_loop_ZeroBased(_, _, _)
calculate_rungs_loop_ZeroBased(nn, i, rg) ==
    IF i >= nn THEN rg
    ELSE calculate_rungs_loop_ZeroBased(nn, i + 1,
             Append(rg, rg[Len(rg)] + 2 * (nn - (i - 1)) + 1))

RECURSIVE calculate_rungs_loop(_, _, _)
calculate_rungs_loop(nn, i, rg) ==
    IF i >= nn THEN rg
    ELSE calculate_rungs_loop(nn, i + 1,
                              Append(rg, rg[Len(rg)] + 2 * (nn - i) + 1))

calculate_rungs(nn) == calculate_rungs_loop(nn, 1, <<1>>)

(* ------------------------------------------------------------------ *)
(* helpers of simulate_network                                        *)
(* ------------------------------------------------------------------ *)
Range(s) == {s[i] : i \in DOMAIN s}

\* sum(f[seg] + add for seg in range(lo, hi))
RECURSIVE SumRange(_, _, _, _)
SumRange(f, lo, hi, add) ==
    IF lo >= hi THEN 0 ELSE f[lo] + add + SumRange(f, lo + 1, hi, add)

\* sum(f[p] for p in seq)
RECURSIVE SumOver(_, _, _)
SumOver(f, seq, i) ==
    IF i > Len(seq) THEN 0 ELSE f[seq[i]] + SumOver(f, seq, i + 1)

\* sum(d.values())
RECURSIVE SumValues(_, _)
SumValues(f, keys) ==
    IF keys = {} THEN 0
    ELSE LET p == CHOOSE q \in keys : TRUE
         IN f[p] + SumValues(f, keys \ {p})

\* defaultdict(int), read on the segments 1..n-1
NewRails(nn) == [seg \in 1..(nn - 1) |-> 0]

\* variant: range(1, player + 1)
Increment_Inclusive(rails, p) ==
    [seg \in DOMAIN rails |-> IF seg <= p THEN rails[seg] + 1 ELSE rails[seg]]

\* for seg in range(1, player): rails[seg] += 1
Increment(rails, p) ==
    [seg \in DOMAIN rails |-> IF seg < p THEN rails[seg] + 1 ELSE rails[seg]]

\* routes[p] = r
SetItem(d, p, r) == [q \in DOMAIN d \cup {p} |-> IF q = p THEN r ELSE d[q]]

\* variant: the member's choice is not consulted
CoalitionBody_AlwaysDeviate(st, p, choice) ==
    [left |-> Increment(st.left, p), right |-> Increment(st.right, p),
     routes |-> SetItem(st.routes, p, 1)]

\* variant: a staying member is recorded on the top rung
CoalitionBody_StayOnTop(st, p, choice) ==
    IF choice
    THEN [left |-> Increment(st.left, p), right |-> Increment(st.right, p),
          routes |-> SetItem(st.routes, p, 1)]
    ELSE [st EXCEPT !.routes = SetItem(st.routes, p, 1)]

\* one iteration of the coalition loop
CoalitionBody(st, p, choice) ==
    IF choice
    THEN [left |-> Increment(st.left, p), right |-> Increment(st.right, p),
          routes |-> SetItem(st.routes, p, 1)]
    ELSE [st EXCEPT !.routes = SetItem(st.routes, p, p)]

\* deviation_cost of a selfish player
DeviationCost(st, p, rg) ==
    SumRange(st.left, 1, p, 1) + SumRange(st.right, 1, p, 1) + rg[1]

\* variant: ties deviate
Deviates_NonStrict(st, p, rg) == DeviationCost(st, p, rg) <= rg[p]

\* variant: the comparison reversed
Deviates_Flipped(st, p, rg) == DeviationCost(st, p, rg) > rg[p]

\* the test "deviation_cost < original_cost"
Deviates(st, p, rg) == DeviationCost(st, p, rg) < rg[p]

\* one iteration of the selfish loop for a player outside the coalition
SelfishBody(st, p, rg) ==
    IF Deviates(st, p, rg)
    THEN [left |-> Increment(st.left, p), right |-> Increment(st.right, p),
          routes |-> SetItem(st.routes, p, 1)]
    ELSE [st EXCEPT !.routes = SetItem(st.routes, p, p)]

\* variant: the tally charges the marginal +1 per segment as the decision does
IndividualCost_Marginal(st, p, rg) ==
    LET rung == st.routes[p]
    IN IF rung = p THEN rg[p]
       ELSE SumRange(st.left, rung, p, 1) + SumRange(st.right, rung, p, 1)
            + rg[rung]

\* one iteration of the cost tally
IndividualCost(st, p, rg) ==
    LET rung == st.routes[p]
    IN IF rung = p THEN rg[p]
       ELSE SumRange(st.left, rung, p, 0) + SumRange(st.right, rung, p, 0)
            + rg[rung]

(* ------------------------------------------------------------------ *)
(* simulate_network as a function of its arguments                    *)
(* ------------------------------------------------------------------ *)
RECURSIVE CoalitionLoop(_, _, _, _)
CoalitionLoop(st, coal, ch, i) ==
    IF i > Len(coal) THEN st
    ELSE CoalitionLoop(CoalitionBody(st, coal[i], ch[i]), coal, ch, i + 1)

RECURSIVE SelfishLoop(_, _, _, _, _)
SelfishLoop(st, nn, coal, rg, p) ==
    IF p > nn THEN st
    ELSE IF p \in Range(coal) THEN SelfishLoop(st, nn, coal, rg, p + 1)
    ELSE SelfishLoop(SelfishBody(st, p, rg), nn, coal, rg, p + 1)

simulate_network(nn, coal, ch, rg) ==
    LET st0 == [left |-> NewRails(nn), right |-> NewRails(nn), routes |-> <<>>]
        st == SelfishLoop(CoalitionLoop(st0, coal, ch, 1), nn, coal, rg, 1)
        ic == [p \in 1..nn |-> IndividualCost(st, p, rg)]
    IN [system_cost |-> SumValues(ic, 1..nn),
        coalition_cost |-> SumOver(ic, coal, 1),
        routes |-> st.routes,
        individual_costs |-> ic]

(* ------------------------------------------------------------------ *)
(* inputs of a direct call                                            *)
(* ------------------------------------------------------------------ *)
\* ordered lists of distinct players of 1..nn
Coalitions(nn) ==
    UNION {{c \in [1..m -> 1..nn] : \A i, j \in 1..m : i # j => c[i] # c[j]}
           : m \in 0..nn}

\* non-decreasing latency sequences, and the generated one
RungChoices(nn) ==
    {r \in [1..nn -> RungVals] : \A i \in 1..(nn - 1) : r[i] <= r[i + 1]}
    \cup {calculate_rungs(nn)}

State == [left |-> left_rails, right |-> right_rails, routes |-> routes]

(* ------------------------------------------------------------------ *)
(* Initial state                                                      *)
(* ------------------------------------------------------------------ *)
Init ==
    /\ pc = "idle" /\ caller = "none"
    /\ n = 0 /\ coalition = <<>> /\ choices = <<>> /\ rungs = <<>>
    /\ generated = 0
    /\ idx = 0 /\ player = 0
    /\ left_rails = <<>> /\ right_rails = <<>> /\ routes = <<>>
    /\ deviation_cost = <<>>
    /\ individual_costs = <<>> /\ system_cost = 0 /\ coalition_cost = 0
    /\ n_min = 0 /\ n_max = 0 /\ k = 0 /\ ci = 0
    /\ min_coalition_cost = Inf /\ best_system_cost = Inf
    /\ best_routes = None /\ best_choices = None
    /\ results = <<>>

(* ------------------------------------------------------------------ *)
(* simulate_network, one action per loop iteration                    *)
(* ------------------------------------------------------------------ *)
\* variant: the rails are module-level dictionaries that outlive the call
Invoke_Stale(nn, coal, ch, rg) ==
    /\ n' = nn /\ coalition' = coal /\ choices' = ch /\ rungs' = rg
    /\ left_rails' = IF DOMAIN left_rails = 1..(nn - 1) THEN left_rails
                     ELSE NewRails(nn)
    /\ right_rails' = IF DOMAIN right_rails = 1..(nn - 1) THEN right_rails
                      ELSE NewRails(nn)
    /\ routes' = <<>>
    /\ deviation_cost' = <<>>
    /\ individual_costs' = <<>>
    /\ system_cost' = 0 /\ coalition_cost' = 0
    /\ idx' = 1 /\ player' = 0
    /\ pc' = "coalition"

\* entry of simulate_network: fresh locals
Invoke(nn, coal, ch, rg) ==
    /\ n' = nn /\ coalition' = coal /\ choices' = ch /\ rungs' = rg
    /\ left_rails' = NewRails(nn)
    /\ right_rails' = NewRails(nn)
    /\ routes' = <<>>
    /\ deviation_cost' = <<>>
    /\ individual_costs' = <<>>
    /\ system_cost' = 0 /\ coalition_cost' = 0
    /\ idx' = 1 /\ player' = 0
    /\ pc' = "coalition"

\* a direct call with arbitrary well-formed arguments
Call ==
    /\ pc = "idle" /\ caller = "none"
    /\ \E nn \in 1..MaxN :
         \E coal \in Coalitions(nn), rg \in RungChoices(nn) :
           \E ch \in [1..Len(coal) -> BOOLEAN] :
             /\ Invoke(nn, coal, ch, rg)
             /\ generated' = IF rg = calculate_rungs(nn) THEN nn ELSE 0
    /\ UNCHANGED <<caller, searchVars>>

\* a further direct call for the same network, after an earlier one returned
CallAgain ==
    /\ pc = "done" /\ caller = "none"
    /\ \E coal \in Coalitions(n) :
         \E ch \in [1..Len(coal) -> BOOLEAN] :
           Invoke(n, coal, ch, rungs)
    /\ UNCHANGED <<caller, generated, searchVars>>

CoalitionStep ==
    /\ pc = "coalition" /\ idx <= Len(coalition)
    /\ LET st == CoalitionBody(State, coalition[idx], choices[idx])
       IN /\ left_rails' = st.left
          /\ right_rails' = st.right
          /\ routes' = st.routes
    /\ idx' = idx + 1
    /\ UNCHANGED <<pc, caller, n, coalition, choices, rungs, generated, player,
                   deviation_cost, individual_costs, system_cost,
                   coalition_cost, searchVars>>

CoalitionEnd ==
    /\ pc = "coalition" /\ idx > Len(coalition)
    /\ pc' = "selfish" /\ player' = 1
    /\ UNCHANGED <<caller, n, coalition, choices, rungs, generated, idx,
                   left_rails, right_rails, routes, deviation_cost,
                   individual_costs, system_cost, coalition_cost, searchVars>>

SelfishSkip ==
    /\ pc = "selfish" /\ player <= n
    /\ player \in Range(coalition)
    /\ player' = player + 1
    /\ UNCHANGED <<pc, caller, n, coalition, choices, rungs, generated, idx,
                   left_rails, right_rails, routes, deviation_cost,
                   individual_costs, system_cost, coalition_cost, searchVars>>

SelfishStep ==
    /\ pc = "selfish" /\ player <= n
    /\ player \notin Range(coalition)
    /\ LET st == SelfishBody(State, player, rungs)
       IN /\ left_rails' = st.left
          /\ right_rails' = st.right
          /\ routes' = st.routes
    /\ deviation_cost' =
           SetItem(deviation_cost, player, DeviationCost(State, player, rungs))
    /\ player' = player + 1
    /\ UNCHANGED <<pc, caller, n, coalition, choices, rungs, generated, idx,
                   individual_costs, system_cost, coalition_cost, searchVars>>

SelfishEnd ==
    /\ pc = "selfish" /\ player > n
    /\ pc' = "tally" /\ player' = 1
    /\ UNCHANGED <<caller, n, coalition, choices, rungs, generated, idx,
                   left_rails, right_rails, routes, deviation_cost,
                   individual_costs, system_cost, coalition_cost, searchVars>>

TallyStep ==
    /\ pc = "tally" /\ player <= n
    /\ individual_costs' =
           SetItem(individual_costs, player, IndividualCost(State, player, rungs))
    /\ player' = player + 1
    /\ UNCHANGED <<pc, caller, n, coalition, choices, rungs, generated, idx,
                   left_rails, right_rails, routes, deviation_cost,
                   system_cost, coalition_cost, searchVars>>

\* variant: the coalition cost summed over list positions, not members
Return_ByPosition ==
    /\ pc = "tally" /\ player > n
    /\ system_cost' = SumValues(individual_costs, DOMAIN individual_costs)
    /\ coalition_cost' = SumRange(individual_costs, 1, Len(coalition) + 1, 0)
    /\ pc' = "done"
    /\ UNCHANGED <<caller, n, coalition, choices, rungs, generated, idx, player,
                   left_rails, right_rails, routes, deviation_cost,
                   individual_costs, searchVars>>

\* system_cost, coalition_cost and the return
Return ==
    /\ pc = "tally" /\ player > n
    /\ system_cost' = SumValues(individual_costs, DOMAIN individual_costs)
    /\ coalition_cost' = SumOver(individual_costs, coalition, 1)
    /\ pc' = "done"
    /\ UNCHANGED <<caller, n, coalition, choices, rungs, generated, idx, player,
                   left_rails, right_rails, routes, deviation_cost,
                   individual_costs, searchVars>>

(* ------------------------------------------------------------------ *)
(* analyze_bottom_coalitions                                          *)
(* ------------------------------------------------------------------ *)
\* itertools.product([True, False], repeat=kk), as a sequence in its order
RECURSIVE Product(_)
Product(kk) ==
    IF kk = 0 THEN << <<>> >>
    ELSE LET rest == Product(kk - 1)
             m == Len(rest)
         IN [j \in 1..(2 * m) |->
               IF j <= m THEN <<TRUE>> \o rest[j] ELSE <<FALSE>> \o rest[j - m]]

\* list(range(nn - kk + 1, nn + 1))
BottomCoalition(nn, kk) == [i \in 1..kk |-> nn - kk + i]

\* a < b where b may be float('inf')
LessThan(a, b) == IF b = Inf THEN a # Inf ELSE a # Inf /\ a < b

\* variant: an equal candidate replaces the incumbent
Better_NonStrict(coal_cost, sys_cost, min_cost, best_sys) ==
    \/ LessThan(coal_cost, min_cost)
    \/ (coal_cost = min_cost /\ ~LessThan(best_sys, sys_cost))

\* the replacement test of the search
Better(coal_cost, sys_cost, min_cost, best_sys) ==
    \/ LessThan(coal_cost, min_cost)
    \/ (coal_cost = min_cost /\ LessThan(sys_cost, best_sys))

StartAnalysis ==
    /\ pc = "idle" /\ caller = "none"
    /\ \E lo \in 1..MaxSearchN : \E hi \in lo..MaxSearchN :
         /\ n_min' = lo /\ n_max' = hi /\ n' = lo
    /\ results' = <<>>
    /\ caller' = "analysis"
    /\ pc' = "for_n"
    /\ UNCHANGED <<coalition, choices, rungs, generated, idx, player,
                   left_rails, right_rails, routes, deviation_cost,
                   individual_costs, system_cost, coalition_cost, k, ci,
                   min_coalition_cost, best_system_cost, best_routes,
                   best_choices>>

\* for n in range(n_min, n_max + 1): rungs = calculate_rungs(n)
ForN ==
    /\ pc = "for_n" /\ n <= n_max
    /\ rungs' = calculate_rungs(n) /\ generated' = n
    /\ k' = 2
    /\ pc' = "for_k"
    /\ UNCHANGED <<caller, n, coalition, choices, idx, player, left_rails,
                   right_rails, routes, deviation_cost, individual_costs,
                   system_cost, coalition_cost, n_min, n_max, ci,
                   min_coalition_cost, best_system_cost, best_routes,
                   best_choices, results>>

\* return results
AnalysisReturn ==
    /\ pc = "for_n" /\ n > n_max
    /\ pc' = "finished"
    /\ UNCHANGED <<caller, simVars, searchVars>>

\* for k in range(2, n): set up the coalition and the incumbent
ForK ==
    /\ pc = "for_k" /\ k < n
    /\ coalition' = BottomCoalition(n, k)
    /\ min_coalition_cost' = Inf /\ best_system_cost' = Inf
    /\ best_routes' = None /\ best_choices' = None
    /\ ci' = 1
    /\ pc' = "for_choices"
    /\ UNCHANGED <<caller, n, choices, rungs, generated, idx, player,
                   left_rails, right_rails, routes, deviation_cost,
                   individual_costs, system_cost, coalition_cost, n_min,
                   n_max, k, results>>

ForKEnd ==
    /\ pc = "for_k" /\ k >= n
    /\ n' = n + 1
    /\ pc' = "for_n"
    /\ UNCHANGED <<caller, coalition, choices, rungs, generated, idx, player,
                   left_rails, right_rails, routes, deviation_cost,
                   individual_costs, system_cost, coalition_cost, searchVars>>

\* for choices in itertools.product(...): simulate_network(n, coalition, choices, rungs)
ForChoices ==
    /\ pc = "for_choices" /\ ci <= Len(Product(k))
    /\ Invoke(n, coalition, Product(k)[ci], rungs)
    /\ UNCHANGED <<caller, generated, searchVars>>

\* the comparison with the incumbent after simulate_network returned
Compare ==
    /\ pc = "done" /\ caller = "analysis"
    /\ IF Better(coalition_cost, system_cost, min_coalition_cost,
                 best_system_cost)
       THEN /\ min_coalition_cost' = coalition_cost
            /\ best_system_cost' = system_cost
            /\ best_routes' = routes
            /\ best_choices' = choices
       ELSE UNCHANGED <<min_coalition_cost, best_system_cost, best_routes,
                        best_choices>>
    /\ ci' = ci + 1
    /\ pc' = "for_choices"
    /\ UNCHANGED <<caller, simVars, n_min, n_max, k, results>>

\* results[n][k] = {...}
Record ==
    /\ pc = "for_choices" /\ ci > Len(Product(k))
    /\ results' = SetItem(results, <<n, k>>,
                          [system_cost |-> best_system_cost,
                           coalition_cost |-> min_coalition_cost,
                           routes |-> best_routes,
                           coalition_choices |-> best_choices])
    /\ k' = k + 1
    /\ pc' = "for_k"
    /\ UNCHANGED <<caller, simVars, n_min, n_max, ci, min_coalition_cost,
                   best_system_cost, best_routes, best_choices>>

Next ==
    \/ Call
    \/ CallAgain
    \/ CoalitionStep
    \/ CoalitionEnd
    \/ SelfishSkip
    \/ SelfishStep
    \/ SelfishEnd
    \/ TallyStep
    \/ Return
    \/ StartAnalysis
    \/ ForN
    \/ AnalysisReturn
    \/ ForK
    \/ ForKEnd
    \/ ForChoices
    \/ Compare
    \/ Record

Spec == Init /\ [][Next]_vars

(* ================================================================== *)
(* Properties                                                         *)
(* ================================================================== *)
InRun == pc \in {"coalition", "selfish", "tally", "done"}
AllStay == \A i \in DOMAIN choices : ~choices[i]
IsSuffix == coalition = BottomCoalition(n, Len(coalition))
Members == Range(coalition)

\* the value returned by the call that has just finished
Returned ==
    [system_cost |-> system_cost, coalition_cost |-> coalition_cost,
     routes |-> routes, individual_costs |-> individual_costs]

\* the result of pure selfish best-response of all n players
Selfish == simulate_network(n, <<>>, <<>>, rungs)

SameOutcome(a, b) ==
    /\ a.routes = b.routes
    /\ a.individual_costs = b.individual_costs
    /\ a.system_cost = b.system_cost

(* C1 (as stated): with a suffix coalition and the all-False strategy the   *)
(* call returns the routes, individual costs and system cost of the pure    *)
(* selfish run with an empty coalition.                                     *)
C1_AllFalseEqualsSelfish ==
    (pc = "done" /\ IsSuffix /\ AllStay) => SameOutcome(Returned, Selfish)

(* C1 (amended): with a suffix coalition of ranks n-k+1..n and the          *)
(* all-False strategy, the non-members 1..n-k get the routes of the pure    *)
(* selfish run, the members stay on their own rungs, and the whole outcome  *)
(* equals the pure selfish one exactly when no player of rank n-k+1..n      *)
(* deviates in the pure selfish run.                                        *)
C1_AllFalseVersusSelfish ==
    (pc = "done" /\ IsSuffix /\ AllStay) =>
        /\ \A p \in 1..(n - Len(coalition)) : routes[p] = Selfish.routes[p]
        /\ \A p \in Members : routes[p] = p
        /\ SameOutcome(Returned, Selfish)
               <=> (\A p \in Members : Selfish.routes[p] = p)

C1_Witness ==
    /\ pc = "done" /\ IsSuffix /\ AllStay
    /\ Len(coalition) >= 1
    /\ SameOutcome(Returned, Selfish)
    /\ \E p \in 2..n : routes[p] = 1

(* C2 (as stated): under the all-stay strategy every player p of 1..n has   *)
(* routes[p] = p and individual_costs[p] = rungs[p-1].                      *)
C2_AllStayEveryPlayer ==
    (pc = "done" /\ AllStay) =>
        \A p \in 1..n : routes[p] = p /\ individual_costs[p] = rungs[p]

(* C2 (amended): under the all-stay strategy every coalition member p has   *)
(* routes[p] = p and individual_costs[p] = rungs[p-1].                      *)
C2_AllStayMembers ==
    (pc = "done" /\ AllStay) =>
        \A p \in Members : routes[p] = p /\ individual_costs[p] = rungs[p]

C2_Witness ==
    /\ pc = "done" /\ AllStay
    /\ \E p \in Members : p >= 2 /\ routes[p] = p
    /\ \E q \in (1..n) \ Members : q >= 2 /\ routes[q] = 1

(* C3: for every (n, k) with 2 <= k <= n-1 the search runs all 2^k strategy *)
(* tuples of the coalition n-k+1..n; the incumbent is at every point the    *)
(* first tuple, in enumeration order, that attains the lexicographic        *)
(* minimum of (coalition cost, system cost) among the tuples tried, so the  *)
(* recorded result is that of the first minimal tuple of all 2^k and its    *)
(* coalition cost is at most that of the all-stay tuple.                    *)
Cands(nn, kk) ==
    [j \in 1..Len(Product(kk)) |->
        simulate_network(nn, BottomCoalition(nn, kk), Product(kk)[j],
                         calculate_rungs(nn))]

LexLess(a, b) ==
    \/ a.coalition_cost < b.coalition_cost
    \/ (a.coalition_cost = b.coalition_cost /\ a.system_cost < b.system_cost)

\* the first index of 1..m whose outcome no other index of 1..m beats
FirstBest(c, m) ==
    CHOOSE j \in 1..m :
        \A i \in 1..m : ~LexLess(c[i], c[j]) /\ (i < j => LexLess(c[j], c[i]))

Pow2(kk) == Cardinality([1..kk -> BOOLEAN])

C3_Incumbent ==
    (pc = "for_choices" /\ ci > 1) =>
        LET c == Cands(n, k)
            j == FirstBest(c, ci - 1)
        IN /\ min_coalition_cost = c[j].coalition_cost
           /\ best_system_cost = c[j].system_cost
           /\ best_choices = Product(k)[j]
           /\ best_routes = c[j].routes

C3_Recorded ==
    (pc = "for_k" /\ <<n, k - 1>> \in DOMAIN results) =>
        LET kk == k - 1
            c == Cands(n, kk)
            j == FirstBest(c, Len(c))
            r == results[<<n, kk>>]
        IN /\ ci = Pow2(kk) + 1
           /\ Len(c) = Pow2(kk)
           /\ {Product(kk)[i] : i \in 1..Len(c)} = [1..kk -> BOOLEAN]
           /\ r.coalition_cost = c[j].coalition_cost
           /\ r.system_cost = c[j].system_cost
           /\ r.coalition_choices = Product(kk)[j]
           /\ r.routes = c[j].routes
           /\ \A i \in 1..Len(c) : ~LexLess(c[i], c[j])
           /\ \A i \in 1..kk : ~Product(kk)[Len(c)][i]
           /\ r.coalition_cost <= c[Len(c)].coalition_cost

C3_AllPairs ==
    pc = "finished" =>
        DOMAIN results =
            {<<nn, kk>> \in (n_min..n_max) \X (2..MaxSearchN) : kk <= nn - 1}

C3_Search == C3_Incumbent /\ C3_Recorded /\ C3_AllPairs

\* the largest coalition of n = 4: the best tuple is neither first nor last
C3_Witness ==
    /\ pc = "for_k" /\ n = 4 /\ k = 4
    /\ <<4, 3>> \in DOMAIN results
    /\ results[<<4, 3>>].coalition_choices = <<TRUE, FALSE, TRUE>>
    /\ results[<<4, 3>>].coalition_cost = 27
    /\ results[<<4, 3>>].system_cost = 28

(* C4: calculate_rungs(n) has n positive entries, starts at 1, follows      *)
(* r[i] = r[i-1] + 2(n-i) + 1, is strictly increasing, and is               *)
(* [1, 8, 13, 16] for n = 4.                                                *)
C4_Rungs ==
    generated >= 1 =>
        LET m == generated
        IN /\ Len(rungs) = m
           /\ rungs[1] = 1
           /\ \A j \in 1..m : rungs[j] > 0
           /\ \A j \in 2..m :
                /\ rungs[j] = rungs[j - 1] + 2 * (m - (j - 1)) + 1
                /\ rungs[j] > rungs[j - 1]
           /\ (m = 4 => rungs = <<1, 8, 13, 16>>)

C4_Witness == generated = 4 /\ rungs = <<1, 8, 13, 16>> /\ pc = "for_k"

(* C5: a finished call has one individual cost per player of 1..n, its      *)
(* system cost is their sum, and its coalition cost is the sum over the     *)
(* k distinct coalition members.                                            *)
C5_CostSums ==
    pc = "done" =>
        /\ DOMAIN individual_costs = 1..n
        /\ system_cost = SumRange(individual_costs, 1, n + 1, 0)
        /\ Cardinality(Members) = Len(coalition)
        /\ coalition_cost = SumValues(individual_costs, Members)

C5_Witness ==
    /\ pc = "done" /\ Len(coalition) = 2 /\ n = 3
    /\ coalition_cost < system_cost
    /\ \E p \in Members : individual_costs[p] # rungs[p]

(* C6: every call starts from zero counters and empty routes, leaves its    *)
(* arguments untouched, and returns what simulate_network yields for those  *)
(* arguments when run on its own, whatever calls came before.               *)
C6_Fresh ==
    /\ (pc = "coalition" /\ idx = 1) =>
           /\ left_rails = NewRails(n) /\ right_rails = NewRails(n)
           /\ routes = <<>>
    /\ pc = "done" => Returned = simulate_network(n, coalition, choices, rungs)

C6_ArgsKept ==
    (pc \in {"coalition", "selfish", "tally"}) =>
        UNCHANGED <<n, coalition, choices, rungs>>

C6_Deterministic == []C6_Fresh /\ [][C6_ArgsKept]_vars

\* a call of the search that follows one in which a member deviated
C6_Witness ==
    /\ pc = "done" /\ caller = "analysis" /\ ci >= 2
    /\ Product(k)[ci - 1][k]
    /\ ~choices[k]
    /\ routes[n] = n

(* C7: members are processed first, in coalition order, then non-members    *)
(* in ascending rank; a selfish player p deviates iff rungs[0] plus the two *)
(* sums of (count+1) over segments 1..p-1 is strictly below rungs[p-1],     *)
(* where the counts are the deviating members and the lower-ranked selfish  *)
(* deviators; otherwise it stays and the counters are unchanged.            *)
DevCount(seg) ==
    Cardinality({i \in DOMAIN coalition : choices[i] /\ coalition[i] > seg})
    + Cardinality({q \in 1..(player - 1) :
                     q \notin Members /\ q > seg /\ routes[q] = 1})

C7_Step ==
    /\ (pc = "coalition" /\ idx <= Len(coalition)) =>
           /\ DOMAIN routes = {coalition[i] : i \in 1..(idx - 1)}
           /\ DOMAIN routes' = DOMAIN routes \cup {coalition[idx]}
           /\ idx' = idx + 1
    /\ (pc = "selfish" /\ player <= n) =>
           /\ DOMAIN routes = Members \cup 1..(player - 1)
           /\ player' = player + 1
           /\ \A seg \in 1..(n - 1) :
                  left_rails[seg] = DevCount(seg)
                  /\ right_rails[seg] = DevCount(seg)
           /\ IF player \in Members
              THEN UNCHANGED <<routes, left_rails, right_rails>>
              ELSE LET cnt == [seg \in 1..(n - 1) |-> DevCount(seg)]
                       cost == rungs[1] + SumRange(cnt, 1, player, 1)
                               + SumRange(cnt, 1, player, 1)
                   IN IF cost < rungs[player]
                      THEN /\ routes'[player] = 1
                           /\ \A seg \in 1..(n - 1) :
                                left_rails'[seg] =
                                   left_rails[seg] + (IF seg < player THEN 1 ELSE 0)
                                /\ right_rails'[seg] =
                                   right_rails[seg] + (IF seg < player THEN 1 ELSE 0)
                      ELSE /\ routes'[player] = player
                           /\ UNCHANGED <<left_rails, right_rails>>

C7_BestResponse == [][C7_Step]_vars

\* a tie under congestion: the player stayed on its own rung
C7_Witness ==
    /\ pc = "tally"
    /\ \E q \in DOMAIN deviation_cost :
         /\ q >= 2 /\ deviation_cost[q] = rungs[q] /\ routes[q] = q
         /\ deviation_cost[q] > rungs[1] + 2 * (q - 1)

(* C8: during a run left[s] = right[s] is the number of processed players   *)
(* of rank above s that deviated to the top rung, it never exceeds n-1, and *)
(* the counters never decrease within the run.                              *)
C8_Counts ==
    InRun =>
        /\ DOMAIN left_rails = 1..(n - 1) /\ DOMAIN right_rails = 1..(n - 1)
        /\ \A s \in 1..(n - 1) :
             /\ left_rails[s] = right_rails[s]
             /\ left_rails[s] \in Nat
             /\ left_rails[s] =
                  Cardinality({q \in DOMAIN routes : q > s /\ routes[q] = 1})
             /\ left_rails[s] <= n - 1

C8_Grow ==
    (pc \in {"coalition", "selfish", "tally"}) =>
        \A s \in 1..(n - 1) : /\ left_rails'[s] >= left_rails[s]
                              /\ right_rails'[s] >= right_rails[s]

C8_Counters == []C8_Counts /\ [][C8_Grow]_vars

C8_Witness ==
    /\ pc = "selfish" /\ n = 3
    /\ left_rails[1] = 2 /\ left_rails[2] = 1

(* C9: with the generated rungs every selfish player of rank >= 2 is routed *)
(* to the top rung whatever the coalition chose; a selfish player 1 changes *)
(* no counter, has route 1 and cost rungs[0] = 1.                           *)
C9_Routes ==
    (InRun /\ rungs = calculate_rungs(n)) =>
        \A p \in DOMAIN routes \ Members :
            /\ p >= 2 => routes[p] = 1
            /\ p = 1 => /\ routes[1] = 1
                        /\ (1 \in DOMAIN individual_costs =>
                               individual_costs[1] = 1 /\ rungs[1] = 1)

C9_PlayerOne ==
    (pc = "selfish" /\ player = 1 /\ rungs = calculate_rungs(n)) =>
        UNCHANGED <<left_rails, right_rails>>

C9_SelfishDeviate == []C9_Routes /\ [][C9_PlayerOne]_vars

\* every member deviated before the selfish players chose
C9_Witness ==
    /\ pc = "done" /\ rungs = calculate_rungs(n) /\ n = 3
    /\ Len(coalition) = 1 /\ choices[1] /\ coalition[1] = 3
    /\ routes[2] = 1 /\ routes[1] = 1

(* C10: with the generated rungs every final individual cost is positive    *)
(* and at most the player's own rung latency; a selfish deviator pays at    *)
(* least the deviation cost it computed and strictly less than its rung.    *)
C10_FinalCosts ==
    (pc = "done" /\ rungs = calculate_rungs(n)) =>
        \A p \in 1..n :
            /\ individual_costs[p] > 0
            /\ individual_costs[p] <= rungs[p]
            /\ (p \notin Members /\ routes[p] # p) =>
                   /\ individual_costs[p] >= deviation_cost[p]
                   /\ individual_costs[p] < rungs[p]

\* a selfish deviator whose final cost exceeds what it computed
C10_Witness ==
    /\ pc = "done" /\ rungs = calculate_rungs(n)
    /\ \E p \in (1..n) \ Members :
         routes[p] # p /\ individual_costs[p] > deviation_cost[p]

====
